---- MODULE Spec2Model ----
(***************************************************************************)
(* A model of coins.ipynb: drawable sources (Die, Coin, Counter), the      *)
(* Trial runner with its nested-dictionary accumulator, and the table      *)
(* formatter dictsToTbl / norm.                                            *)
(*                                                                         *)
(* Python values are tagged records: PyInt(n) is the int n, PyStr(c) the   *)
(* str whose code points are the tuple c, PyFloat(n, d) the float n/d.     *)
(* A dict is a TLA+ function whose DOMAIN is the dict's key set.           *)
(***************************************************************************)
EXTENDS Integers, Sequences, FiniteSets, TLC

VARIABLES
    sources,    \* [runner -> list of sources]   UniformSelectionTrial.sources
    results,    \* [runner -> {result: {name: count}}]       Trial.results
    pc,         \* position of the interpreter: "idle" or inside run()
    cur,        \* the runner of the current (or last) call
    nDraws,     \* the argument of the current (or last) run() call
    i,          \* run(): the loop variable i of `for i in range(nDraws)`
    src,        \* run(): index in sources of the source chooseSource() returned
    outcome,    \* run(): the value src.draw() returned
    status,     \* how the last call ended
    out,        \* what the last call printed (printSummary), or None
    before,     \* history: the accumulator of cur when the current run() began
    nChoose,    \* history: chooseSource() calls made by the current run()
    nDraw,      \* history: draw() calls made by the current run()
    nAdd,       \* history: _add() calls made by the current run()
    log,        \* history: [runner -> {<<source index, outcome>>: draws}]
    fresh,      \* history: [runner -> no run() was called on it yet]
    onFresh,    \* history: the current run() was called on a fresh runner
    dd,         \* table formatter: the argument of dictsToTbl
    tbl,        \* table formatter: what dictsToTbl returned
    normed,     \* table formatter: what norm returned
    obj,        \* source under test: the object draw() is called on
    dpc,        \* source under test: position inside draw()
    di,         \* Counter.draw(): the loop variable i
    total,      \* Counter.draw(): the local total
    sample,     \* Coin.draw(): the value random.uniform(-1, 1) returned
    ret,        \* source under test: what the last draw() returned
    nSub,       \* history: source.draw() calls made by the current Counter.draw()
    nEq         \* history: how many of those returned the target value

vars == <<sources, results, pc, cur, nDraws, i, src, outcome, status, out,
          before, nChoose, nDraw, nAdd, log, fresh, onFresh, dd, tbl, normed,
          obj, dpc, di, total, sample, ret, nSub, nEq>>

trialVars == <<sources, results, pc, cur, nDraws, i, src, outcome, status, out,
               before, nChoose, nDraw, nAdd, log, fresh, onFresh>>
tblVars == <<dd, tbl, normed>>
drawVars == <<obj, dpc, di, total, sample, ret, nSub, nEq>>

----------------------------------------------------------------------------
(* Bounds of the model.                                                    *)

MaxIters == 3       \* iterations of run() over all runners together
MaxSides == 3       \* largest side count of a die
MaxK == 2           \* largest nDraws of a Counter
RandomSteps == 2    \* grid points of random.random() in [0, 1)
MaxKey == 2         \* keys of the dictionaries given to dictsToTbl
MaxCount == 1       \* largest count in the dictionaries given to dictsToTbl

----------------------------------------------------------------------------
(* Python values.                                                          *)

None == [t |-> "None", v |-> 0]
PyInt(n) == [t |-> "int", v |-> n]
PyStr(c) == [t |-> "str", v |-> c]
PyFloat(n, d) == [t |-> "float", v |-> <<n, d>>]

EmptyDict == <<>>

DictGet(d, k, default) == IF k \in DOMAIN d THEN d[k] ELSE default

DictSet(d, k, val) == [x \in DOMAIN d \cup {k} |-> IF x = k THEN val ELSE d[x]]

\* 'Heads', 'Tails', 'FairCoin', 'Coin:' as code points
Heads == PyStr(<<72, 101, 97, 100, 115>>)
Tails == PyStr(<<84, 97, 105, 108, 115>>)
FairCoinName == PyStr(<<70, 97, 105, 114, 67, 111, 105, 110>>)
CoinPrefix == <<67, 111, 105, 110, 58>>

RECURSIVE Digits(_)
Digits(n) == IF n < 10 THEN <<48 + n>> ELSE Digits(n \div 10) \o <<48 + (n % 10)>>

\* '%s' % n for an int n
FormatInt(n) == IF n < 0 THEN <<45>> \o Digits(-n) ELSE Digits(n)

RECURSIVE LexLess(_, _)
LexLess(s, u) ==
    IF u = <<>> THEN FALSE
    ELSE IF s = <<>> THEN TRUE
    ELSE IF Head(s) # Head(u) THEN Head(s) < Head(u)
    ELSE LexLess(Tail(s), Tail(u))

\* a < b of two ints or of two strs
PyLess(a, b) == IF a.t = "int" THEN a.v < b.v ELSE LexLess(a.v, b.v)

----------------------------------------------------------------------------
(* The random module, as CPython computes it.                              *)

\* random.random(): a float j / RandomSteps of [0, 1)
RandomRandom == {PyFloat(j, RandomSteps) : j \in 0 .. RandomSteps - 1}

\* random.uniform(a, b) is a + (b - a) * random()
RandomUniform(a, b) ==
    {PyFloat(a * r.v[2] + (b - a) * r.v[1], r.v[2]) : r \in RandomRandom}

\* random.randint(a, b): an int of a..b, both ends included
RandomRandint(a, b) == a .. b

\* random.choice(seq), as the index of the element chosen
RandomChoice(seq) == 1 .. Len(seq)

\* f < n of a float f and an int n
FloatLessInt(f, n) == f.v[1] < n * f.v[2]

----------------------------------------------------------------------------
(* Sources: Die, Coin, Counter.                                            *)

Die(sides, name) ==
    [type |-> "Die", sides |-> sides,
     name |-> IF name # None THEN name ELSE PyInt(sides)]

Coin(bias) ==
    [type |-> "Coin", bias |-> bias,
     name |-> IF bias = 0 THEN FairCoinName
              ELSE PyStr(CoinPrefix \o FormatInt(bias))]

\* a Counter named after its target value, not after its source
Counter_namedByValue(source, value, n) ==
    [type |-> "Counter", source |-> source, value |-> value, nDraws |-> n,
     name |-> value]

Counter(source, value, n) ==
    [type |-> "Counter", source |-> source, value |-> value, nDraws |-> n,
     name |-> source.name]

\* Die.draw() drawing from one value too many, as random.randint(1, sides + 1)
DieDraw_oneTooMany(die) == {PyInt(n) : n \in RandomRandint(1, die.sides + 1)}

\* Die.draw()
DieDraw(die) == {PyInt(n) : n \in RandomRandint(1, die.sides)}

\* Coin.draw() comparing with <= where the code has <
CoinDraw_atMost(coin, u) ==
    LET h == u.v[1] <= coin.bias * u.v[2]
    IN  IF h THEN Heads ELSE Tails

\* Coin.draw(), u being what random.uniform(-1, 1) returned
CoinDraw(coin, u) ==
    LET h == FloatLessInt(u, coin.bias)
    IN  IF h THEN Heads ELSE Tails

\* the loop body of Counter.draw() without its comparison
CounterStep_unconditional(tot, x, value) == tot + 1

\* Counter.draw(): one pass of the loop body, x being what source.draw() returned
CounterStep(tot, x, value) == IF x = value THEN tot + 1 ELSE tot

RECURSIVE CounterLoop(_, _, _)
CounterLoop(tot, xs, value) ==
    IF xs = <<>> THEN tot
    ELSE CounterLoop(CounterStep(tot, Head(xs), value), Tail(xs), value)

\* range(n + 1) where the code has range(n)
RangeLen_oneMore(n) == IF n >= 0 THEN n + 1 ELSE 0

\* range(n) of an int n: the number of values it yields
RangeLen(n) == IF n > 0 THEN n ELSE 0

\* the values source.draw() can return
RECURSIVE DrawOutcomes(_)
DrawOutcomes(source) ==
    CASE source.type = "Die" -> DieDraw(source)
      [] source.type = "Coin" -> {CoinDraw(source, u) : u \in RandomUniform(-1, 1)}
      [] source.type = "Counter" ->
            {PyInt(CounterLoop(0, xs, source.value)) :
                xs \in [1 .. RangeLen(source.nDraws) -> DrawOutcomes(source.source)]}

----------------------------------------------------------------------------
(* Trial and UniformSelectionTrial.                                        *)

\* _add storing 1 where the code adds 1
_add_storesOne(res, name, result) ==
    LET withRow == IF result \notin DOMAIN res
                   THEN DictSet(res, result, EmptyDict)
                   ELSE res
    IN  DictSet(withRow, result, DictSet(withRow[result], name, 1))

\* _add without the `+ 1`
_add_noIncrement(res, name, result) ==
    LET withRow == IF result \notin DOMAIN res
                   THEN DictSet(res, result, EmptyDict)
                   ELSE res
    IN  DictSet(withRow, result,
                DictSet(withRow[result], name, DictGet(withRow[result], name, 0)))

\* _add without the `if`: the row is made anew on every call
_add_newRowEachTime(res, name, result) ==
    LET withRow == DictSet(res, result, EmptyDict)
    IN  DictSet(withRow, result,
                DictSet(withRow[result], name, DictGet(withRow[result], name, 0) + 1))

\* Trial._add
_add(res, name, result) ==
    LET withRow == IF result \notin DOMAIN res
                   THEN DictSet(res, result, EmptyDict)
                   ELSE res
    IN  DictSet(withRow, result,
                DictSet(withRow[result], name, DictGet(withRow[result], name, 0) + 1))

\* a range() that also refuses negative ints
RangeTypeError_refusesNegative(n) == n.t # "int" \/ n.v < 0

\* range(n): n must be an int ('float' object cannot be interpreted as an integer)
RangeTypeError(n) == n.t # "int"

----------------------------------------------------------------------------
(* The table formatter: dictsToTbl, norm, and what printSummary prints.    *)

\* sorted(S, reverse=True)
RECURSIVE Sorted_descending(_)
Sorted_descending(S) ==
    IF S = {} THEN <<>>
    ELSE LET m == CHOOSE x \in S : \A y \in S \ {x} : PyLess(y, x)
         IN  <<m>> \o Sorted_descending(S \ {m})

\* sorted(S): the elements of S in ascending order
RECURSIVE Sorted(_)
Sorted(S) ==
    IF S = {} THEN <<>>
    ELSE LET m == CHOOSE x \in S : \A y \in S \ {x} : PyLess(x, y)
         IN  <<m>> \o Sorted(S \ {m})

\* list.index(x): the first position of x (positions count from 1 here)
Index(seq, x) ==
    CHOOSE k \in 1 .. Len(seq) : seq[k] = x /\ \A j \in 1 .. k - 1 : seq[j] # x

dictsToTbl(d) ==
    LET rowNames == Sorted(DOMAIN d)
        colNames == Sorted(UNION {DOMAIN d[r] : r \in DOMAIN d})
        items == {<<rn, cn>> \in (DOMAIN d) \X (UNION {DOMAIN d[r] : r \in DOMAIN d}) :
                     cn \in DOMAIN d[rn]}
        at(ri, ci) == {it \in items : Index(rowNames, it[1]) = ri
                                      /\ Index(colNames, it[2]) = ci}
        cell(ri, ci) == IF at(ri, ci) = {} THEN 0
                        ELSE LET it == CHOOSE it \in at(ri, ci) : TRUE
                             IN  d[it[1]][it[2]]
        matrix == [ri \in 1 .. Len(rowNames) |->
                      [ci \in 1 .. Len(colNames) |-> cell(ri, ci)]]
    IN  <<matrix, rowNames, colNames>>

RECURSIVE SeqSum(_)
SeqSum(row) == IF row = <<>> THEN 0 ELSE Head(row) + SeqSum(Tail(row))

NaN == PyFloat(0, 0)
Inf == PyFloat(1, 0)

\* a / s of numpy floats: dividing by zero gives nan or inf, not an exception
FloatDiv(a, s) == IF s = 0 THEN (IF a = 0 THEN NaN ELSE Inf) ELSE PyFloat(a, s)

norm(ar) ==
    [ri \in DOMAIN ar |-> [ci \in DOMAIN ar[ri] |-> FloatDiv(ar[ri][ci], SeqSum(ar[ri]))]]

\* (x * 10000).astype(int) / 100. of one cell; a nan or inf has no defined int
Percent(x) ==
    IF x.v[2] = 0 THEN None ELSE PyFloat((x.v[1] * 10000) \div x.v[2], 100)

\* what Trial.printSummary prints for the accumulator res
Summary(res) ==
    LET t == dictsToTbl(res)
        n == norm(t[1])
    IN  [cols |-> t[3], rows |-> t[2],
         pct |-> [ri \in DOMAIN n |-> [ci \in DOMAIN n[ri] |-> Percent(n[ri][ci])]]]

----------------------------------------------------------------------------
(* The calls made on the trial runners.  One call runs at a time.          *)

\* dice with default names and distinct side counts, and one die named by hand
DiceLists ==
    {<<Die(a, None), Die(b, None)>> : <<a, b>> \in {p \in (1 .. MaxSides) \X (1 .. MaxSides) : p[1] < p[2]}}
    \cup {<<Die(4, None), Die(6, None)>>}
    \cup {<<Die(MaxSides, PyInt(1))>>}

\* how many fair coins stand next to the always-heads coin
FairCoinCounts == {1, 2}

\* one always-heads coin and n fair coins, each wrapped in Counter(coin, 'Heads', k)
CounterLists ==
    {<<Counter(Coin(1), Heads, k)>> \o [j \in 1 .. n |-> Counter(Coin(0), Heads, k)] :
        <<k, n>> \in (0 .. MaxK) \X FairCoinCounts}

\* two Counters over two dice that are distinct objects with the same name
DiceCounterLists ==
    {<<Counter(Die(2, None), PyInt(1), 1), Counter(Die(2, None), PyInt(1), 2)>>}

SourceLists == DiceLists \cup CounterLists \cup DiceCounterLists

\* the arguments given to run(): ints, negative ones included, and floats
NDrawsInputs ==
    {PyInt(n) : n \in -1 .. MaxIters} \cup {PyFloat(m, 2) : m \in {-3, 1, 4}}

RECURSIVE DictSum(_)
DictSum(d) ==
    IF DOMAIN d = {} THEN 0
    ELSE LET k == CHOOSE k \in DOMAIN d : TRUE
         IN  d[k] + DictSum([x \in DOMAIN d \ {k} |-> d[x]])

Runners == DOMAIN results

RECURSIVE ItersOf(_)
ItersOf(R) ==
    IF R = {} THEN 0
    ELSE LET r == CHOOSE r \in R : TRUE
         IN  DictSum(log[r]) + ItersOf(R \ {r})

ItersSoFar == ItersOf(DOMAIN log)

\* the runners of R are constructed, each over the same list of Lists
TrialInit(R, Lists) ==
    /\ \E L \in Lists : sources = [r \in R |-> L]
    /\ results = [r \in R |-> EmptyDict]
    /\ pc = "idle" /\ cur = 0 /\ nDraws = None /\ i = 0 /\ src = 0
    /\ outcome = None /\ status = "none" /\ out = None /\ before = None
    /\ nChoose = 0 /\ nDraw = 0 /\ nAdd = 0
    /\ log = [r \in R |-> EmptyDict]
    /\ fresh = [r \in R |-> TRUE]
    /\ onFresh = FALSE

\* t.run(n) is called; range(n) raises TypeError unless n is an int
run(r, n) ==
    /\ pc = "idle"
    /\ n.t = "int" => ItersSoFar + RangeLen(n.v) <= MaxIters
    /\ cur' = r /\ nDraws' = n /\ i' = 0 /\ src' = 0 /\ outcome' = None
    /\ out' = None /\ nChoose' = 0 /\ nDraw' = 0 /\ nAdd' = 0
    /\ before' = results[r]
    /\ fresh' = [fresh EXCEPT ![r] = FALSE] /\ onFresh' = fresh[r]
    /\ IF RangeTypeError(n)
       THEN pc' = "idle" /\ status' = "TypeError"
       ELSE pc' = "loop" /\ status' = "running"
    /\ UNCHANGED <<sources, results, log>>

\* run(): range(nDraws) yields a value, and src = self.chooseSource()
chooseSource ==
    /\ pc = "loop" /\ i < RangeLen(nDraws.v)
    /\ \E k \in RandomChoice(sources[cur]) : src' = k
    /\ nChoose' = nChoose + 1
    /\ pc' = "chosen"
    /\ UNCHANGED <<sources, results, cur, nDraws, i, outcome, status, out, before,
                   nDraw, nAdd, log, fresh, onFresh>>

\* run(): src.draw() is evaluated
Draw ==
    /\ pc = "chosen"
    /\ \E x \in DrawOutcomes(sources[cur][src]) :
          /\ outcome' = x
          /\ log' = [log EXCEPT ![cur] = DictSet(@, <<src, x>>, DictGet(@, <<src, x>>, 0) + 1)]
    /\ nDraw' = nDraw + 1
    /\ pc' = "drawn"
    /\ UNCHANGED <<sources, results, cur, nDraws, i, src, status, out, before,
                   nChoose, nAdd, fresh, onFresh>>

\* run(): self._add(src.name, <the value drawn>), and the loop goes round
Add ==
    /\ pc = "drawn"
    /\ results' = [results EXCEPT ![cur] = _add(@, sources[cur][src].name, outcome)]
    /\ nAdd' = nAdd + 1
    /\ i' = i + 1
    /\ pc' = "loop"
    /\ UNCHANGED <<sources, cur, nDraws, src, outcome, status, out, before,
                   nChoose, nDraw, log, fresh, onFresh>>

\* run(): range(nDraws) is exhausted and run returns
RunReturn ==
    /\ pc = "loop" /\ ~(i < RangeLen(nDraws.v))
    /\ pc' = "idle" /\ status' = "returned"
    /\ src' = 0 /\ outcome' = None
    /\ UNCHANGED <<sources, results, cur, nDraws, i, out, before,
                   nChoose, nDraw, nAdd, log, fresh, onFresh>>

\* t.printSummary() is called
printSummary(r) ==
    /\ pc = "idle"
    /\ cur' = r /\ status' = "printed"
    /\ out' = Summary(results[r])
    /\ nDraws' = None /\ i' = 0 /\ nChoose' = 0 /\ nDraw' = 0 /\ nAdd' = 0
    /\ onFresh' = FALSE /\ before' = None
    /\ UNCHANGED <<sources, results, pc, src, outcome, log, fresh>>

TrialNext ==
    \/ \E r \in Runners, n \in NDrawsInputs : run(r, n)
    \/ chooseSource
    \/ Draw
    \/ Add
    \/ RunReturn
    \/ \E r \in Runners : printSummary(r)

OtherInit ==
    /\ dd = None /\ tbl = None /\ normed = None
    /\ obj = None /\ dpc = "idle" /\ di = 0 /\ total = 0 /\ sample = None
    /\ ret = None /\ nSub = 0 /\ nEq = 0

Next == TrialNext /\ UNCHANGED tblVars /\ UNCHANGED drawVars

\* one trial runner, over any of the source lists
Init == TrialInit({1}, SourceLists) /\ OtherInit

Spec == Init /\ [][Next]_vars

\* two trial runners built over the same list of sources
TwoLists ==
    {<<Die(1, None), Die(2, None)>>,
     <<Counter(Coin(1), Heads, 1), Counter(Coin(0), Heads, 1)>>}

InitTwo == TrialInit({1, 2}, TwoLists) /\ OtherInit

SpecTwo == InitTwo /\ [][Next]_vars

----------------------------------------------------------------------------
(* Reading the accumulator and the history.                                *)

Cell(res, o, n) == IF o \in DOMAIN res /\ n \in DOMAIN res[o] THEN res[o][n] ELSE 0

RowTotal(res, o) == IF o \in DOMAIN res THEN DictSum(res[o]) ELSE 0

TableTotal(res) == DictSum([o \in DOMAIN res |-> DictSum(res[o])])

\* the cells that exist in the accumulator
Cells(res) == {<<o, n>> \in (DOMAIN res) \X (UNION {DOMAIN res[o] : o \in DOMAIN res}) :
                  n \in DOMAIN res[o]}

\* draws of runner r that returned o / that returned o from a source named n
DrawsReturning(r, o) ==
    DictSum([k \in {k \in DOMAIN log[r] : k[2] = o} |-> log[r][k]])

DrawsReturningFrom(r, o, n) ==
    DictSum([k \in {k \in DOMAIN log[r] : k[2] = o /\ sources[r][k[1]].name = n}
                |-> log[r][k]])

DrawsFrom(r, n) ==
    DictSum([k \in {k \in DOMAIN log[r] : sources[r][k[1]].name = n} |-> log[r][k]])

\* the iteration of runner r that has drawn and not yet recorded
Pending(r) == pc = "drawn" /\ cur = r

PendingRow(r, o) == IF Pending(r) /\ outcome = o THEN 1 ELSE 0

PendingCell(r, o, n) ==
    IF Pending(r) /\ outcome = o /\ sources[r][src].name = n THEN 1 ELSE 0

Outcomes(r) == DOMAIN results[r] \cup {k[2] : k \in DOMAIN log[r]}

Names(r) == {sources[r][k].name : k \in 1 .. Len(sources[r])}

IsNat(n) == n.t = "int" /\ n.v >= 0

----------------------------------------------------------------------------
\* C1: in every state, part-way through a run included, every stored count is
\* a non-negative integer, the counts of the row of outcome o sum to the number
\* of iterations so far whose draw returned o, the counts of the whole table
\* sum to the number of iterations so far, and after run(nDraws) on a fresh
\* runner that sum is nDraws.
C1_CountsMatchIterations ==
    \A r \in Runners :
        /\ \A c \in Cells(results[r]) : results[r][c[1]][c[2]] \in Nat
        /\ \A o \in Outcomes(r) :
              RowTotal(results[r], o) + PendingRow(r, o) = DrawsReturning(r, o)
        /\ TableTotal(results[r]) + (IF Pending(r) THEN 1 ELSE 0) = DictSum(log[r])
        /\ (status = "returned" /\ cur = r /\ onFresh /\ IsNat(nDraws))
              => TableTotal(results[r]) = nDraws.v

C1_Witness ==
    /\ status = "returned" /\ onFresh /\ nDraws = PyInt(MaxIters)
    /\ \E c \in Cells(results[cur]) : results[cur][c[1]][c[2]] >= 2

\* C2: run(nDraws) with nDraws >= 0 ends after exactly nDraws iterations; each
\* iteration calls chooseSource() once, then draw() once on the source chosen,
\* then records the pair (name of that source, outcome of that draw) once;
\* run(0) on a fresh runner chooses nothing, draws nothing and leaves the
\* accumulator empty.
C2_Positions ==
    /\ pc = "loop" => /\ nChoose = i /\ nDraw = i /\ nAdd = i
                      /\ i <= RangeLen(nDraws.v)
    /\ pc = "chosen" => /\ nChoose = i + 1 /\ nDraw = i /\ nAdd = i
                        /\ i < RangeLen(nDraws.v)
    /\ pc = "drawn" => /\ nChoose = i + 1 /\ nDraw = i + 1 /\ nAdd = i
                       /\ outcome \in DrawOutcomes(sources[cur][src])
    /\ (status = "returned" /\ IsNat(nDraws)) =>
            /\ i = nDraws.v /\ nChoose = nDraws.v /\ nDraw = nDraws.v
            /\ nAdd = nDraws.v
    /\ (status = "returned" /\ onFresh /\ nDraws = PyInt(0)) =>
            /\ nChoose = 0 /\ nDraw = 0 /\ results[cur] = EmptyDict
    /\ pc # "idle" => ENABLED (chooseSource \/ Draw \/ Add \/ RunReturn)

\* the steps run() still has to take
C2_Variant ==
    3 * (RangeLen(nDraws.v) - i)
    - (CASE pc = "loop" -> 0 [] pc = "chosen" -> 1 [] pc = "drawn" -> 2)

C2_Step ==
    /\ (pc # "idle" /\ pc' # "idle") => C2_Variant' < C2_Variant
    /\ (pc = "drawn" /\ pc' = "loop") =>
          LET n == sources[cur][src].name
          IN  /\ Cell(results'[cur], outcome, n) = Cell(results[cur], outcome, n) + 1
              /\ TableTotal(results'[cur]) = TableTotal(results[cur]) + 1

C2_RunIterates == [](C2_Positions) /\ [][C2_Step]_vars

C2_Witness ==
    /\ status = "returned" /\ nDraws = PyInt(MaxIters) /\ nAdd = MaxIters

\* C6 as it is written: run(nDraws) with a negative or a fractional nDraws
\* ends in an error and leaves the accumulator unchanged.
IsNegative(n) == (n.t = "int" /\ n.v < 0) \/ (n.t = "float" /\ n.v[1] < 0)

IsFractional(n) == n.t = "float" /\ n.v[1] % n.v[2] # 0

RunEnded == pc = "idle" /\ status \in {"returned", "TypeError"}

C6_Original ==
    (RunEnded /\ (IsNegative(nDraws) \/ IsFractional(nDraws))) =>
        (status = "TypeError" /\ results[cur] = before)

\* C6, amended: run(nDraws) with a fractional nDraws ends in a TypeError and
\* leaves the accumulator unchanged; with a negative int nDraws it returns
\* normally after no iteration, and leaves the accumulator unchanged as well.
C6_Amended ==
    /\ (RunEnded /\ IsFractional(nDraws)) =>
          (status = "TypeError" /\ results[cur] = before /\ nChoose = 0 /\ nDraw = 0)
    /\ (RunEnded /\ nDraws.t = "int" /\ nDraws.v < 0) =>
          (status = "returned" /\ results[cur] = before /\ nChoose = 0 /\ nDraw = 0)

C6_Witness ==
    /\ RunEnded /\ IsFractional(nDraws) /\ status = "TypeError"
    /\ results[cur] # EmptyDict /\ results[cur] = before

\* C7: over dice with default names and pairwise distinct side counts, every
\* outcome recorded is an int of 1 .. the largest side count, and the cell
\* (o, die N) is zero whenever o > N.
DefaultDice(L) ==
    /\ \A k \in 1 .. Len(L) : L[k].type = "Die" /\ L[k].name = PyInt(L[k].sides)
    /\ \A j, k \in 1 .. Len(L) : j # k => L[j].sides # L[k].sides

C7_DieNeverOverCredited ==
    \A r \in Runners :
        DefaultDice(sources[r]) =>
            \A o \in DOMAIN results[r] :
                /\ o.t = "int" /\ o.v >= 1
                /\ \E k \in 1 .. Len(sources[r]) : o.v <= sources[r][k].sides
                /\ \A k \in 1 .. Len(sources[r]) :
                      o.v > sources[r][k].sides
                          => Cell(results[r], o, PyInt(sources[r][k].sides)) = 0

\* dice {4, 6}: a 6 was rolled, credited to die-6 and not to die-4
C7_Witness ==
    /\ sources[1] = <<Die(4, None), Die(6, None)>>
    /\ Cell(results[1], PyInt(6), PyInt(6)) >= 1
    /\ Cell(results[1], PyInt(6), PyInt(4)) = 0
    /\ Cell(results[1], PyInt(4), PyInt(4)) >= 1

\* C8: a Counter is named as the source it wraps, and the accumulator merges
\* by name: over Counters, each name is at most one column, and the cell
\* (o, name) is the number of iterations in which a Counter of that name was
\* chosen and returned o.
AllCounters(L) == \A k \in 1 .. Len(L) : L[k].type = "Counter"

C8_MergeByName ==
    \A r \in Runners :
        AllCounters(sources[r]) =>
            LET t == dictsToTbl(results[r])
            IN  /\ \A k \in 1 .. Len(sources[r]) :
                      sources[r][k].name = sources[r][k].source.name
                /\ \A n \in Names(r) :
                      Cardinality({c \in 1 .. Len(t[3]) : t[3][c] = n}) <= 1
                /\ \A o \in Outcomes(r), n \in Names(r) :
                      Cell(results[r], o, n) + PendingCell(r, o, n)
                          = DrawsReturningFrom(r, o, n)
                /\ \A ri \in 1 .. Len(t[2]), ci \in 1 .. Len(t[3]) :
                      t[1][ri][ci] + PendingCell(r, t[2][ri], t[3][ci])
                          = DrawsReturningFrom(r, t[2][ri], t[3][ci])

\* one always-heads coin and fair coins, each in a Counter(coin, 'Heads', k)
CoinCounters(L) == L \in CounterLists

\* every row o < k is credited to the fair-coin name alone
C8_RowsBelowK ==
    \A r \in Runners :
        CoinCounters(sources[r]) =>
            \A o \in DOMAIN results[r] :
                o.v < sources[r][1].nDraws =>
                    /\ Cell(results[r], o, Coin(1).name) = 0
                    /\ RowTotal(results[r], o) = Cell(results[r], o, FairCoinName)

\* C8 as it is written: the table has exactly the two columns of the two
\* coin names (read here at its most favourable: after a run of at least one
\* draw has returned).
C8_Original ==
    /\ C8_MergeByName
    /\ C8_RowsBelowK
    /\ \A r \in Runners :
          (CoinCounters(sources[r]) /\ status = "returned" /\ cur = r
           /\ IsNat(nDraws) /\ nDraws.v >= 1)
              => dictsToTbl(results[r])[3] = <<Coin(1).name, FairCoinName>>

\* C8, amended: the columns are the names of the Counters chosen so far, hence
\* at most the two coin names, each at most once and in ascending order.
C8_Amended ==
    /\ C8_MergeByName
    /\ C8_RowsBelowK
    /\ \A r \in Runners :
          CoinCounters(sources[r]) =>
              LET cols == dictsToTbl(results[r])[3]
                  drawn == {sources[r][k[1]].name : k \in DOMAIN log[r]}
                  pend == IF Pending(r) /\ DrawsFrom(r, sources[r][src].name) = 1
                          THEN {sources[r][src].name} ELSE {}
              IN  /\ {cols[c] : c \in 1 .. Len(cols)} = drawn \ pend
                  /\ cols \in {<<>>, <<Coin(1).name>>, <<FairCoinName>>,
                               <<Coin(1).name, FairCoinName>>}

\* two fair coins were chosen and merged into one column; the always-heads
\* coin was chosen too, and a row below k belongs to the fair coins alone
C8_Witness ==
    /\ CoinCounters(sources[1]) /\ sources[1][1].nDraws = MaxK
    /\ \E j, k \in DOMAIN log[1] : j[1] > 1 /\ k[1] > j[1] /\ j[2] = k[2]
                                  /\ j[2].v < MaxK
                                  /\ Cell(results[1], j[2], FairCoinName) = 2
    /\ dictsToTbl(results[1])[3] = <<Coin(1).name, FairCoinName>>

\* C9: the accumulator is empty when the runner is created; each iteration
\* changes exactly one cell of the runner's own accumulator, creating it at 1
\* or adding 1 to it, and nothing else: not another cell, not the sources,
\* not another runner's accumulator; printSummary, dictsToTbl and norm change
\* no accumulator.
OneCellBumped(old, new) ==
    \E o \in DOMAIN new : \E n \in DOMAIN new[o] :
        /\ new[o][n] = Cell(old, o, n) + 1
        /\ Cells(new) = Cells(old) \cup {<<o, n>>}
        /\ DOMAIN new = DOMAIN old \cup {o}
        /\ \A c \in Cells(old) \ {<<o, n>>} : new[c[1]][c[2]] = old[c[1]][c[2]]

C9_EmptyAtStart == \A r \in Runners : fresh[r] => results[r] = EmptyDict

C9_Step ==
    /\ sources' = sources
    /\ (pc = "drawn" /\ pc' = "loop") =>
          /\ OneCellBumped(results[cur], results'[cur])
          /\ \A r \in Runners \ {cur} : results'[r] = results[r]
    /\ ~(pc = "drawn" /\ pc' = "loop") => results' = results
    /\ status' = "printed" => results' = results

C9_Frame == [](C9_EmptyAtStart) /\ [][C9_Step]_vars

\* both runners ran; a cell of runner 2 was created and then incremented
\* while runner 1 kept what it had, and a summary was printed
C9_Witness ==
    /\ status = "printed" /\ out.rows # <<>>
    /\ results[1] # EmptyDict
    /\ \E c \in Cells(results[2]) : results[2][c[1]][c[2]] >= 2

\* C10: every outcome key of the accumulator maps to a non-empty mapping whose
\* counts are all at least 1, so every row of the table dictsToTbl builds has
\* a sum of at least 1 and printSummary never divides by zero; with no draw
\* made the table has no row.
C10_NoZeroRow ==
    \A r \in Runners :
        LET t == dictsToTbl(results[r])
            n == norm(t[1])
        IN  /\ \A o \in DOMAIN results[r] :
                  /\ DOMAIN results[r][o] # {}
                  /\ \A m \in DOMAIN results[r][o] : results[r][o][m] >= 1
            /\ \A ri \in DOMAIN t[1] : SeqSum(t[1][ri]) >= 1
            /\ \A ri \in DOMAIN n : \A ci \in DOMAIN n[ri] : n[ri][ci] \notin {NaN, Inf}
            /\ (status = "printed" /\ cur = r) =>
                  \A ri \in DOMAIN out.pct : \A ci \in DOMAIN out.pct[ri] :
                      out.pct[ri][ci] # None
            /\ DictSum(log[r]) = 0 => t[2] = <<>>

C10_Witness ==
    /\ status = "printed" /\ Len(out.rows) >= 2 /\ Len(out.cols) >= 2
    /\ \E ri \in DOMAIN out.pct : \E ci \in DOMAIN out.pct[ri] :
          out.pct[ri][ci] = PyFloat(0, 100)

----------------------------------------------------------------------------
(* dictsToTbl and norm on their own, over dictionaries of any content.     *)

\* no trial runner exists
NoTrial == TrialInit({}, {<<>>})

NoDraw ==
    /\ obj = None /\ dpc = "idle" /\ di = 0 /\ total = 0 /\ sample = None
    /\ ret = None /\ nSub = 0 /\ nEq = 0

RowKeys == {PyInt(n) : n \in 1 .. MaxKey}

\* column keys: ints that sort 9 < 10, or the names of coins
ColKeySets == {{PyInt(9), PyInt(10)}, {FairCoinName, Coin(1).name}}

\* the dicts whose keys are some of K and whose values are of V
DictsOver(K, V) == UNION {[S -> V] : S \in SUBSET K}

TblInputs ==
    UNION {DictsOver(RowKeys, DictsOver(C, 0 .. MaxCount)) : C \in ColKeySets}

TblInit ==
    /\ dd \in TblInputs /\ tbl = None /\ normed = None
    /\ NoTrial /\ NoDraw

CallDictsToTbl ==
    /\ tbl' = dictsToTbl(dd)
    /\ normed' = None
    /\ UNCHANGED dd

CallNorm ==
    /\ tbl # None
    /\ normed' = norm(tbl[1])
    /\ UNCHANGED <<dd, tbl>>

TblNext == (CallDictsToTbl \/ CallNorm) /\ UNCHANGED trialVars /\ UNCHANGED drawVars

SpecTbl == TblInit /\ [][TblNext]_vars

Ascending(seq) == \A k \in 1 .. Len(seq) - 1 : PyLess(seq[k], seq[k + 1])

Elems(seq) == {seq[k] : k \in 1 .. Len(seq)}

\* C3: dictsToTbl(dd) returns (matrix, rowNames, colNames): rowNames is the
\* set of outcome keys of dd, ascending and without duplicates; colNames is
\* the union of the name keys of all rows, ascending and without duplicates;
\* matrix[i][j] is dd[rowNames[i]][colNames[j]] where that cell exists in dd,
\* and 0 where it does not.
C3_TableOfDicts ==
    tbl # None =>
        LET matrix == tbl[1]
            rowNames == tbl[2]
            colNames == tbl[3]
        IN  /\ Elems(rowNames) = DOMAIN dd
            /\ Len(rowNames) = Cardinality(DOMAIN dd)
            /\ Ascending(rowNames)
            /\ Elems(colNames) = UNION {DOMAIN dd[o] : o \in DOMAIN dd}
            /\ Len(colNames) = Cardinality(Elems(colNames))
            /\ Ascending(colNames)
            /\ DOMAIN matrix = 1 .. Len(rowNames)
            /\ \A ri \in 1 .. Len(rowNames) :
                  /\ DOMAIN matrix[ri] = 1 .. Len(colNames)
                  /\ \A ci \in 1 .. Len(colNames) :
                        matrix[ri][ci] =
                            IF colNames[ci] \in DOMAIN dd[rowNames[ri]]
                            THEN dd[rowNames[ri]][colNames[ci]]
                            ELSE 0

\* two rows and the columns 9 < 10; a cell present with a count, one absent
C3_Witness ==
    /\ tbl # None
    /\ tbl[2] = <<PyInt(1), PyInt(2)>> /\ tbl[3] = <<PyInt(9), PyInt(10)>>
    /\ PyInt(10) \notin DOMAIN dd[PyInt(1)]
    /\ tbl[1][1] = <<MaxCount, 0>> /\ tbl[1][2][2] = MaxCount

----------------------------------------------------------------------------
(* draw() on one source, Counter.draw() one pass of its loop at a time.    *)

Coins == {Coin(b) : b \in {-1, 0, 1}}

Dice == {Die(n, None) : n \in 1 .. MaxSides}

Counters ==
    {Counter(s, val, k) : <<s, val, k>> \in (Coins \cup {Die(2, None)})
                                            \X {Heads, Tails, PyInt(1)}
                                            \X (0 .. MaxK)}

DrawInit ==
    /\ obj \in Coins \cup Dice \cup Counters
    /\ dpc = "idle" /\ di = 0 /\ total = 0 /\ sample = None
    /\ ret = None /\ nSub = 0 /\ nEq = 0
    /\ NoTrial /\ dd = None /\ tbl = None /\ normed = None

\* coin.draw()
CoinDrawCall ==
    /\ obj.type = "Coin" /\ dpc = "idle"
    /\ \E u \in RandomUniform(-1, 1) : sample' = u /\ ret' = CoinDraw(obj, u)
    /\ UNCHANGED <<obj, dpc, di, total, nSub, nEq>>

\* die.draw()
DieDrawCall ==
    /\ obj.type = "Die" /\ dpc = "idle"
    /\ \E x \in DieDraw(obj) : ret' = x
    /\ UNCHANGED <<obj, dpc, di, total, sample, nSub, nEq>>

\* counter.draw() is called: total = 0
CounterDrawBegin ==
    /\ obj.type = "Counter" /\ dpc = "idle"
    /\ dpc' = "loop" /\ total' = 0 /\ di' = 0 /\ ret' = None
    /\ nSub' = 0 /\ nEq' = 0
    /\ UNCHANGED <<obj, sample>>

\* counter.draw(): range(self.nDraws) yields a value; one pass of the loop body
CounterSubDraw ==
    /\ dpc = "loop" /\ di < RangeLen(obj.nDraws)
    /\ \E x \in DrawOutcomes(obj.source) :
          /\ total' = CounterStep(total, x, obj.value)
          /\ nEq' = nEq + (IF x = obj.value THEN 1 ELSE 0)
    /\ nSub' = nSub + 1
    /\ di' = di + 1
    /\ UNCHANGED <<obj, dpc, sample, ret>>

\* counter.draw(): range(self.nDraws) is exhausted; return total
CounterDrawReturn ==
    /\ dpc = "loop" /\ ~(di < RangeLen(obj.nDraws))
    /\ ret' = PyInt(total)
    /\ dpc' = "idle"
    /\ UNCHANGED <<obj, di, total, sample, nSub, nEq>>

DrawNext ==
    /\ \/ CoinDrawCall
       \/ DieDrawCall
       \/ CounterDrawBegin
       \/ CounterSubDraw
       \/ CounterDrawReturn
    /\ UNCHANGED trialVars /\ UNCHANGED tblVars

SpecDraw == DrawInit /\ [][DrawNext]_vars

\* C4: Counter(source, v, k).draw() calls source.draw() exactly k times and
\* returns how many of those k draws equalled v, an int of 0 .. k: k when the
\* source always produces v, 0 when it never does.
C4_CounterCounts ==
    obj.type = "Counter" =>
        /\ dpc = "loop" => nSub = di /\ di <= obj.nDraws /\ total = nEq
        /\ (dpc = "idle" /\ ret # None) =>
              /\ nSub = obj.nDraws
              /\ ret = PyInt(nEq)
              /\ ret.v >= 0 /\ ret.v <= obj.nDraws
              /\ DrawOutcomes(obj.source) = {obj.value} => ret.v = obj.nDraws
              /\ obj.value \notin DrawOutcomes(obj.source) => ret.v = 0

\* a fair coin flipped MaxK times, some flips heads and some not
C4_Witness ==
    /\ obj = Counter(Coin(0), Heads, MaxK)
    /\ dpc = "idle" /\ ret # None /\ nSub = MaxK
    /\ ret.v >= 1 /\ ret.v < MaxK

\* C5: Coin.draw() returns 'Heads' or 'Tails'; whatever random.uniform(-1, 1)
\* returns, a coin of bias 1 draws 'Heads' and a coin of bias -1 draws 'Tails'.
C5_CoinExtremes ==
    (obj.type = "Coin" /\ ret # None) =>
        /\ ret \in {Heads, Tails}
        /\ sample.v[1] >= -sample.v[2] /\ sample.v[1] <= sample.v[2]
        /\ obj.bias = 1 => ret = Heads
        /\ obj.bias = -1 => ret = Tails

\* the coin of bias -1 drew with the sample at the lower end, -1
C5_Witness ==
    /\ obj = Coin(-1) /\ ret = Tails
    /\ sample = PyFloat(-RandomSteps, RandomSteps)

====
